---- MODULE Spec2Model ----
(***************************************************************************)
(* O&M Matcher: text extraction fallback chain, identifier parsing,        *)
(* candidate scoring and the per-document matching loop of matcher.py,     *)
(* together with the auto-confirm selection of streamlitapp.py.            *)
(*                                                                         *)
(* Python strings are sequences of one-character strings; every string     *)
(* operation of the code (strip, upper, lower, join, splitlines, the       *)
(* regular expressions) is computed on the characters.                     *)
(***************************************************************************)
EXTENDS Integers, Sequences, FiniteSets, TLC

(***************************************************************************)
(* Bounds of the model.                                                    *)
(***************************************************************************)
MaxPages == 2
MaxFiles == 2
MaxAssets == 2
MaxRegistry == 6
MaxMissing == 2

(***************************************************************************)
(* Program constants.                                                      *)
(***************************************************************************)
MinTextLen == 100
DefaultMaxPagesOcr == 5
TopN == 5
AutoChoiceScore == 80
TitleLines == 20
SliderMin == 60
SliderMax == 100
SliderDefault == 80

VARIABLES
    \* rapidfuzz: the similarity it gives to two strings whose token sets neither
    \* contain one another, by whether they share a token
    fuzz_other,
    \* extract_text_pdf: the document, the arguments, the position, the locals
    \* and the stages attempted so far
    pdf_doc, use_ocr_if_empty, max_pages_ocr, pdf_pc, text_chunks, text, stage_log,
    \* one call of score_candidate: its arguments and what it returned or raised
    sc_args, sc_ret,
    \* match_files_to_assets: the arguments, the position and the locals
    file_paths, assets, compute_hash, results, m_pc, path_idx,
    asset_idx, m_text, signals, meta, scored,
    \* streamlitapp: the slider and the index preselected for each result
    auto_confirm_threshold, default_index

vars == <<fuzz_other, pdf_doc, use_ocr_if_empty, max_pages_ocr, pdf_pc, text_chunks,
          text, stage_log, sc_args, sc_ret, file_paths, assets, compute_hash,
          results, m_pc, path_idx, asset_idx, m_text, signals, meta, scored,
          auto_confirm_threshold, default_index>>

(***************************************************************************)
(* Characters and Python string operations.                                *)
(***************************************************************************)
UpperSeq == <<"A","B","C","D","E","F","G","H","I","J","K","L","M",
              "N","O","P","Q","R","S","T","U","V","W","X","Y","Z">>
LowerSeq == <<"a","b","c","d","e","f","g","h","i","j","k","l","m",
              "n","o","p","q","r","s","t","u","v","w","x","y","z">>
DigitSeq == <<"0","1","2","3","4","5","6","7","8","9">>

Range(s) == {s[i] : i \in DOMAIN s}

UpperCh == Range(UpperSeq)
LowerCh == Range(LowerSeq)
AlphaCh == UpperCh \cup LowerCh
DigitCh == Range(DigitSeq)
WordCh  == AlphaCh \cup DigitCh \cup {"_"}
WhiteCh == {" ", "\n", "\t", "\r"}

upper_map == [c \in LowerCh |-> UpperSeq[CHOOSE i \in 1..26 : LowerSeq[i] = c]]
lower_map == [c \in UpperCh |-> LowerSeq[CHOOSE i \in 1..26 : UpperSeq[i] = c]]

upper_ch(c) == IF c \in LowerCh THEN upper_map[c] ELSE c
lower_ch(c) == IF c \in UpperCh THEN lower_map[c] ELSE c

py_upper(s) == [i \in 1..Len(s) |-> upper_ch(s[i])]
py_lower(s) == [i \in 1..Len(s) |-> lower_ch(s[i])]

RECURSIVE FirstNotIn(_, _, _)
FirstNotIn(s, cs, i) ==
    IF i > Len(s) THEN i
    ELSE IF s[i] \in cs THEN FirstNotIn(s, cs, i + 1) ELSE i

RECURSIVE LastNotIn(_, _, _)
LastNotIn(s, cs, i) ==
    IF i < 1 THEN i
    ELSE IF s[i] \in cs THEN LastNotIn(s, cs, i - 1) ELSE i

\* str.strip(chars)
py_strip_chars(s, cs) ==
    LET a == FirstNotIn(s, cs, 1)
        b == LastNotIn(s, cs, Len(s))
    IN  IF a > b THEN <<>> ELSE SubSeq(s, a, b)

\* str.strip()
py_strip(s) == py_strip_chars(s, WhiteCh)

\* sub in s
py_contains(sub, s) ==
    \E i \in 0..(Len(s) - Len(sub)) : SubSeq(s, i + 1, i + Len(sub)) = sub

\* sep.join(parts)
RECURSIVE py_join(_, _)
py_join(sep, parts) ==
    IF Len(parts) = 0 THEN <<>>
    ELSE IF Len(parts) = 1 THEN parts[1]
    ELSE parts[1] \o sep \o py_join(sep, Tail(parts))

\* the least element of a non-empty set of integers
MinOf(S) == CHOOSE j \in S : \A k \in S : j <= k

\* str.splitlines(): start is the first character of the current line
RECURSIVE SplitFrom(_, _, _)
SplitFrom(s, breaks, start) ==
    LET later == {j \in breaks : j >= start}
    IN  IF later = {}
        THEN IF start > Len(s) THEN <<>> ELSE <<SubSeq(s, start, Len(s))>>
        ELSE LET j    == MinOf(later)
                 crlf == s[j] = "\r" /\ j < Len(s) /\ s[j + 1] = "\n"
             IN  <<SubSeq(s, start, j - 1)>>
                 \o SplitFrom(s, breaks, IF crlf THEN j + 2 ELSE j + 1)

py_splitlines(s) == SplitFrom(s, {j \in 1..Len(s) : s[j] \in {"\n", "\r"}}, 1)

\* x in list
InList(x, list) == \E i \in DOMAIN list : list[i] = x

(***************************************************************************)
(* Regular expressions (module re).  A pattern is a sequence of            *)
(* alternatives in priority order; an alternative is a sequence of items:  *)
(* a greedy quantified character class, \b, or a group parenthesis.        *)
(* MatchFrom follows the backtracking order of re: the leftmost choice is  *)
(* the outermost, a greedy class gives characters back one at a time.      *)
(***************************************************************************)
Cls(cs, lo, hi) == [k |-> "cls", cs |-> cs, lo |-> lo, hi |-> hi]
One(cs)  == Cls(cs, 1, 1)
Opt(cs)  == Cls(cs, 0, 1)
Star(cs) == Cls(cs, 0, -1)
WordB    == [k |-> "b", cs |-> {}, lo |-> 0, hi |-> 0]
GOpen    == [k |-> "(", cs |-> {}, lo |-> 0, hi |-> 0]
GClose   == [k |-> ")", cs |-> {}, lo |-> 0, hi |-> 0]

\* a literal under re.IGNORECASE
Lit(s) == [i \in 1..Len(s) |-> One({lower_ch(s[i]), upper_ch(s[i])})]
\* a literal, case-sensitive
LitCS(s) == [i \in 1..Len(s) |-> One({s[i]})]

IsWordAt(t, i) == i >= 1 /\ i <= Len(t) /\ t[i] \in WordCh
\* \b between t[pos-1] and t[pos]
IsBoundary(t, pos) == IsWordAt(t, pos - 1) # IsWordAt(t, pos)

RECURSIVE RunLen(_, _, _, _)
RunLen(t, cs, pos, hi) ==
    IF hi = 0 \/ pos > Len(t) THEN 0
    ELSE IF t[pos] \in cs THEN 1 + RunLen(t, cs, pos + 1, hi - 1) ELSE 0

NoMatch == [ok |-> FALSE, end |-> 0, gs |-> 0, ge |-> 0]

RECURSIVE MatchFrom(_, _, _, _)
RECURSIVE TryLen(_, _, _, _, _)
MatchFrom(t, alt, k, pos) ==
    IF k > Len(alt) THEN [ok |-> TRUE, end |-> pos, gs |-> 0, ge |-> 0]
    ELSE CASE alt[k].k = "b" ->
                IF IsBoundary(t, pos) THEN MatchFrom(t, alt, k + 1, pos) ELSE NoMatch
           [] alt[k].k = "(" ->
                LET r == MatchFrom(t, alt, k + 1, pos)
                IN  IF r.ok THEN [r EXCEPT !.gs = pos] ELSE r
           [] alt[k].k = ")" ->
                LET r == MatchFrom(t, alt, k + 1, pos)
                IN  IF r.ok THEN [r EXCEPT !.ge = pos] ELSE r
           [] OTHER ->
                LET mx == RunLen(t, alt[k].cs, pos, alt[k].hi)
                IN  IF mx < alt[k].lo THEN NoMatch ELSE TryLen(t, alt, k, pos, mx)

TryLen(t, alt, k, pos, n) ==
    LET r == MatchFrom(t, alt, k + 1, pos + n)
    IN  IF r.ok THEN r
        ELSE IF n > alt[k].lo THEN TryLen(t, alt, k, pos, n - 1) ELSE NoMatch

RECURSIVE MatchAlts(_, _, _, _)
MatchAlts(t, pat, a, pos) ==
    IF a > Len(pat) THEN NoMatch
    ELSE LET r == MatchFrom(t, pat[a], 1, pos)
         IN  IF r.ok THEN r ELSE MatchAlts(t, pat, a + 1, pos)

\* the positions at which the pattern matches
MatchStarts(t, pat) == {q \in 1..Len(t) : MatchAlts(t, pat, 1, q).ok}

\* re.finditer: the matches left to right, none overlapping; m.group(1) when the
\* pattern has a group, else m.group(0)
RECURSIVE MatchesFrom(_, _, _, _)
MatchesFrom(t, pat, starts, pos) ==
    LET later == {q \in starts : q >= pos}
    IN  IF later = {} THEN <<>>
        ELSE LET q == MinOf(later)
                 r == MatchAlts(t, pat, 1, q)
             IN  <<[start |-> q, end |-> r.end,
                    val |-> IF r.gs > 0 THEN SubSeq(t, r.gs, r.ge - 1)
                            ELSE SubSeq(t, q, r.end - 1)]>>
                 \o MatchesFrom(t, pat, starts, IF r.end > q THEN r.end ELSE q + 1)

finditer(t, pat) == MatchesFrom(t, pat, MatchStarts(t, pat), 1)

\* re.sub(pat, repl, t): the text between the matches ms, repl for each match
RECURSIVE Replaced(_, _, _, _, _)
Replaced(t, repl, ms, k, pos) ==
    IF k > Len(ms) THEN SubSeq(t, pos, Len(t))
    ELSE SubSeq(t, pos, ms[k].start - 1) \o repl \o Replaced(t, repl, ms, k + 1, ms[k].end)

re_sub(pat, repl, t) == Replaced(t, repl, finditer(t, pat), 1, 1)

(***************************************************************************)
(* String literals of the source, as character sequences.                  *)
(***************************************************************************)
LIT_None == <<"N","o","n","e">>
LIT_nan == <<"n","a","n">>
LIT_TAG == <<"T","A","G">>
LIT_S == <<"S">>
LIT_N == <<"N">>
LIT_SN == <<"S","N">>
LIT_Serial == <<"S","e","r","i","a","l">>
LIT_NoDot == <<"N","o",".">>
LIT_No == <<"N","O">>
LIT_Number == <<"N","u","m","b","e","r">>
LIT_Model == <<"M","o","d","e","l">>
LIT_Type == <<"T","y","p","e">>
LIT_Manufacturer == <<"M","a","n","u","f","a","c","t","u","r","e","r">>
LIT_MadeBy == <<"M","a","d","e"," ","b","y">>
LIT_operations == <<"o","p","e","r","a","t","i","o","n","s">>
LIT_maintenance == <<"m","a","i","n","t","e","n","a","n","c","e">>
LIT_manual == <<"m","a","n","u","a","l">>
LIT_instructions == <<"i","n","s","t","r","u","c","t","i","o","n","s">>
LIT_guide == <<"g","u","i","d","e">>
LIT_toc == <<"t","a","b","l","e"," ","o","f"," ","c","o","n","t","e","n","t","s">>

(***************************************************************************)
(* Python values of a registry cell: None, the float nan that pandas puts  *)
(* in an empty cell, or a string.                                          *)
(***************************************************************************)
PyNone   == [t |-> "None", s |-> <<>>]
PyNaN    == [t |-> "nan", s |-> <<>>]
PyStr(s) == [t |-> "str", s |-> s]

\* bool(v): None and "" are falsy, nan (a non-zero float) and other strings truthy
Truthy(v) == CASE v.t = "None" -> FALSE
               [] v.t = "nan"  -> TRUE
               [] OTHER        -> v.s # <<>>

\* str(v)
py_str(v) == CASE v.t = "None" -> LIT_None
               [] v.t = "nan"  -> LIT_nan
               [] OTHER        -> v.s

\* dict.get(key, default)
Get(d, key, default) == IF key \in DOMAIN d THEN d[key] ELSE default

(***************************************************************************)
(* Identifier parsing: ID_PATTERNS, SERIAL_PATTERNS, MODEL_PATTERNS,       *)
(* MANUFACTURER_PATTERNS, all searched with re.IGNORECASE.                 *)
(***************************************************************************)
SepCh     == {":", "#", "-"} \cup WhiteCh
SerialCh  == AlphaCh \cup DigitCh \cup {"-"}
ModelCh   == AlphaCh \cup DigitCh \cup {"-", ".", "_"}
MfrCh     == AlphaCh \cup DigitCh \cup {"&", "-", ".", ",", " "}

ID_PATTERNS == <<
    << <<WordB, Cls(AlphaCh, 2, 5), One({"-"}), Cls(DigitCh, 3, 8), WordB>> >>,
    << <<WordB, Cls(AlphaCh, 2, 5), Cls(DigitCh, 3, 8), WordB>> >>,
    << <<WordB>> \o Lit(LIT_TAG) \o <<Opt({"-"} \cup WhiteCh), Cls(DigitCh, 3, 8), WordB>> >> >>

SerialTail == <<Star(SepCh), GOpen, Cls(SerialCh, 5, 20), GClose, WordB>>

SERIAL_PATTERNS == <<
    << <<WordB>> \o Lit(LIT_S) \o <<Opt({"/"})>> \o Lit(LIT_N) \o SerialTail,
       <<WordB>> \o Lit(LIT_Serial) \o <<One(WhiteCh)>> \o Lit(LIT_NoDot) \o SerialTail,
       <<WordB>> \o Lit(LIT_Serial) \o <<One(WhiteCh)>> \o Lit(LIT_Number) \o SerialTail,
       <<WordB>> \o Lit(LIT_Serial) \o SerialTail,
       <<WordB>> \o Lit(LIT_Serial) \o <<One(WhiteCh)>> \o Lit(LIT_No) \o <<Opt({"."})>>
                 \o SerialTail >>,
    << <<WordB>> \o Lit(LIT_SN) \o SerialTail >> >>

ModelCap == <<GOpen, Cls(ModelCh, 2, 30), GClose, WordB>>

MODEL_PATTERNS == <<
    << <<WordB>> \o Lit(LIT_Model) \o <<One(WhiteCh)>> \o Lit(LIT_NoDot)
                 \o <<Star(SepCh)>> \o ModelCap,
       <<WordB>> \o Lit(LIT_Model) \o <<One(WhiteCh)>> \o Lit(LIT_Number)
                 \o <<Star(SepCh)>> \o ModelCap,
       <<WordB>> \o Lit(LIT_Model) \o <<Star(SepCh)>> \o ModelCap >>,
    << <<WordB>> \o Lit(LIT_Type) \o <<One(WhiteCh)>> \o ModelCap,
       <<WordB>> \o Lit(LIT_Model) \o <<One(WhiteCh)>> \o ModelCap >> >>

MfrTail == <<Star({":"} \cup WhiteCh), GOpen, Cls(MfrCh, 2, 50), GClose, WordB>>

MANUFACTURER_PATTERNS == <<
    << <<WordB>> \o Lit(LIT_Manufacturer) \o MfrTail >>,
    << <<WordB>> \o Lit(LIT_MadeBy) \o MfrTail >> >>

\* the loop body of find_with_patterns for the matches ms of one pattern
RECURSIVE AddFound(_, _)
AddFound(found, ms) ==
    IF ms = <<>> THEN found
    ELSE LET val == py_upper(py_strip_chars(py_strip(ms[1].val), {":", "#", "-", " "}))
         IN  AddFound(IF val # <<>> /\ ~InList(val, found) THEN Append(found, val)
                      ELSE found,
                      Tail(ms))

RECURSIVE FindFrom(_, _, _, _)
FindFrom(txt, patterns, p, found) ==
    IF p > Len(patterns) THEN found
    ELSE FindFrom(txt, patterns, p + 1,
                  AddFound(found, finditer(txt, patterns[p])))

find_with_patterns(txt, patterns) == FindFrom(txt, patterns, 1, <<>>)

parse_identifiers(txt) ==
    [asset_ids     |-> find_with_patterns(txt, ID_PATTERNS),
     serials       |-> find_with_patterns(txt, SERIAL_PATTERNS),
     models        |-> find_with_patterns(txt, MODEL_PATTERNS),
     manufacturers |-> find_with_patterns(txt, MANUFACTURER_PATTERNS)]

(***************************************************************************)
(* Normalization.                                                          *)
(***************************************************************************)
PunctCh == {"_", "-", ".", "(", ")", "[", "]", ","}

\* re.sub(r'\s+', ' ', s)
CollapseWhite(s) == re_sub(<< <<Cls(WhiteCh, 1, -1)>> >>, <<" ">>, s)

normalize(v) ==
    IF v.t = "None" THEN <<>>
    ELSE py_lower(py_strip(CollapseWhite(
             re_sub(<< <<One(PunctCh)>> >>, <<" ">>, py_str(v)))))

(***************************************************************************)
(* Title heuristic.                                                        *)
(***************************************************************************)
BOILERPLATE == <<
    <<WordB>> \o Lit(LIT_operations) \o <<WordB>>,
    <<WordB>> \o Lit(LIT_maintenance) \o <<WordB>>,
    <<WordB>> \o Lit(LIT_manual) \o <<WordB>>,
    <<WordB>> \o Lit(LIT_instructions) \o <<WordB>>,
    <<WordB>> \o Lit(LIT_guide) \o <<WordB>>,
    <<WordB>> \o Lit(LIT_toc) \o <<WordB>> >>

RECURSIVE NonBlankStripped(_)
NonBlankStripped(lines) ==
    IF lines = <<>> THEN <<>>
    ELSE (IF py_strip(lines[1]) # <<>> THEN <<py_strip(lines[1])>> ELSE <<>>)
         \o NonBlankStripped(Tail(lines))

FirstLines(lines, n) == SubSeq(lines, 1, IF Len(lines) < n THEN Len(lines) ELSE n)

guess_title_terms(txt) ==
    LET lines  == NonBlankStripped(FirstLines(py_splitlines(txt), TitleLines))
        header == py_join(<<" ">>, lines)
    IN  py_strip(CollapseWhite(re_sub(BOILERPLATE, <<" ">>, header)))

(***************************************************************************)
(* rapidfuzz.fuzz.token_set_ratio, by its contract: 0 when either string   *)
(* has no token, 100 when the token sets share a token and one contains    *)
(* the other, and otherwise a similarity the library computes from the     *)
(* characters, here the value fuzz_other holds for the pair's kind.        *)
(***************************************************************************)
\* str.split(): the words between runs of whitespace
Tokens(s) ==
    {SubSeq(s, a, a + RunLen(s, Range(s) \ WhiteCh, a, -1) - 1) :
        a \in {j \in 1..Len(s) : s[j] \notin WhiteCh /\ (j = 1 \/ s[j - 1] \in WhiteCh)}}

token_set_ratio(s1, s2) ==
    LET a == Tokens(s1)
        b == Tokens(s2)
    IN  IF a = {} \/ b = {} THEN 0
        ELSE IF a \cap b # {} /\ (a \subseteq b \/ b \subseteq a) THEN 100
        ELSE fuzz_other[a \cap b # {}]

(***************************************************************************)
(* Scoring.  Each rule of score_candidate takes the score and reasons so   *)
(* far and gives them back with its contribution added.                    *)
(***************************************************************************)
Reason(tag) == [tag |-> tag, sim |-> 0]
\* f"fuzzy_name_{sim}"
FuzzyReason(sim) == [tag |-> "fuzzy_name", sim |-> sim]

Add(acc, points, reason) ==
    [score |-> acc.score + points, reasons |-> Append(acc.reasons, reason)]

ASSET_TOKEN == << <<Cls(UpperCh, 2, 5), One({"-"}), Cls(DigitCh, 3, 8)>>,
                  <<Cls(UpperCh, 2, 5), Cls(DigitCh, 3, 8)>> >>

\* re.findall: the set of the matched strings
findall(pat, t) == LET ms == finditer(t, pat) IN {ms[i].val : i \in DOMAIN ms}

IdCols == {"asset_id", "external_id", "tag", "name"}

asset_tokens(asset_row) ==
    UNION {IF col \in DOMAIN asset_row /\ Truthy(asset_row[col])
           THEN findall(ASSET_TOKEN, py_upper(py_str(asset_row[col])))
           ELSE {} : col \in IdCols}

IdRule(acc, asset_row, sig) ==
    IF Range(sig.asset_ids) \cap asset_tokens(asset_row) # {}
    THEN Add(acc, 50, Reason("id_match"))
    ELSE acc

SerialRule(acc, asset_row, sig) ==
    LET asset_serial == py_upper(py_str(Get(asset_row, "serial", PyStr(<<>>))))
    IN  IF asset_serial # <<>> /\ InList(asset_serial, sig.serials)
        THEN Add(acc, 25, Reason("serial_match"))
        ELSE acc

\* lines 178-187 without the else of line 182: the loose containment would be
\* tried after an exact match too
ModelRuleBoth(acc, asset_row, sig) ==
    LET asset_model == py_upper(py_str(Get(asset_row, "model", PyStr(<<>>))))
        exact == IF asset_model # <<>> /\ InList(asset_model, sig.models)
                 THEN Add(acc, 20, Reason("model_match"))
                 ELSE acc
    IN  IF asset_model # <<>>
           /\ \E j \in DOMAIN sig.models :
                 /\ Len(sig.models[j]) >= 4
                 /\ \/ py_contains(sig.models[j], asset_model)
                    \/ py_contains(asset_model, sig.models[j])
        THEN Add(exact, 15, Reason("model_partial"))
        ELSE exact

ModelRule(acc, asset_row, sig) ==
    LET asset_model == py_upper(py_str(Get(asset_row, "model", PyStr(<<>>))))
    IN  IF asset_model = <<>> THEN acc
        ELSE IF InList(asset_model, sig.models)
        THEN Add(acc, 20, Reason("model_match"))
        ELSE IF \E j \in DOMAIN sig.models :
                    /\ Len(sig.models[j]) >= 4
                    /\ \/ py_contains(sig.models[j], asset_model)
                       \/ py_contains(asset_model, sig.models[j])
        THEN Add(acc, 15, Reason("model_partial"))
        ELSE acc

RECURSIVE ManufacturerLoop(_, _, _)
ManufacturerLoop(acc, asset_mfr, ms) ==
    IF ms = <<>> THEN acc
    ELSE ManufacturerLoop(
            IF token_set_ratio(asset_mfr, normalize(PyStr(ms[1]))) >= 90
            THEN Add(acc, 10, Reason("manufacturer"))
            ELSE acc,
            asset_mfr, Tail(ms))

ManufacturerRule(acc, asset_row, sig) ==
    ManufacturerLoop(acc, normalize(Get(asset_row, "manufacturer", PyStr(<<>>))),
                     sig.manufacturers)

\* lines 195-201 with the two awards exchanged
FuzzyNameRuleSwapped(acc, asset_row, sig) ==
    IF sig.title_terms = <<>> THEN acc
    ELSE LET sim == token_set_ratio(normalize(Get(asset_row, "name", PyStr(<<>>))),
                                    normalize(PyStr(sig.title_terms)))
         IN  IF sim >= 90 THEN Add(acc, 10, FuzzyReason(sim))
             ELSE IF sim >= 80 THEN Add(acc, 20, FuzzyReason(sim))
             ELSE acc

FuzzyNameRule(acc, asset_row, sig) ==
    IF sig.title_terms = <<>> THEN acc
    ELSE LET sim == token_set_ratio(normalize(Get(asset_row, "name", PyStr(<<>>))),
                                    normalize(PyStr(sig.title_terms)))
         IN  IF sim >= 90 THEN Add(acc, 20, FuzzyReason(sim))
             ELSE IF sim >= 80 THEN Add(acc, 10, FuzzyReason(sim))
             ELSE acc

\* asset_row.get("project") and asset_row["project"]
HasProject(asset_row) == Truthy(Get(asset_row, "project", PyNone))

\* .lower() of a value that is no string raises AttributeError
FolderRaises(asset_row) == HasProject(asset_row) /\ asset_row["project"].t # "str"

FolderRule(acc, file_meta, asset_row) ==
    IF HasProject(asset_row)
       /\ py_contains(py_lower(asset_row["project"].s), py_lower(file_meta.dir))
    THEN Add(acc, 10, Reason("folder_hint"))
    ELSE acc

\* a == b of Python: nan equals nothing
py_eq(a, b) == a.t = b.t /\ a.t # "nan" /\ a.s = b.s

Max2(a, b) == IF a >= b THEN a ELSE b

HashRule(acc, file_meta, asset_row) ==
    IF /\ Truthy(file_meta.hash)
       /\ Truthy(Get(asset_row, "file_hash", PyNone))
       /\ py_eq(file_meta.hash, asset_row["file_hash"])
    THEN [score |-> Max2(acc.score, 100),
          reasons |-> Append(acc.reasons, Reason("hash_match"))]
    ELSE acc

Returned(acc) == [raised |-> FALSE, error |-> "", score |-> acc.score,
                  reasons |-> acc.reasons]
Raised(e)     == [raised |-> TRUE, error |-> e, score |-> 0, reasons |-> <<>>]

score_candidate(file_meta, asset_row, sig) ==
    LET a0 == [score |-> 0, reasons |-> <<>>]
        a1 == IdRule(a0, asset_row, sig)
        a2 == SerialRule(a1, asset_row, sig)
        a3 == ModelRule(a2, asset_row, sig)
        a4 == ManufacturerRule(a3, asset_row, sig)
        a5 == FuzzyNameRule(a4, asset_row, sig)
    IN  IF FolderRaises(asset_row) THEN Raised("AttributeError")
        ELSE Returned(HashRule(FolderRule(a5, file_meta, asset_row),
                               file_meta, asset_row))

(***************************************************************************)
(* Text extraction.  A PDF is its pages, each with the text PyMuPDF,       *)
(* pdfplumber and tesseract give for it, and for each of the three stages  *)
(* whether it raises and where: at 0 when the file is opened, at j while   *)
(* page j is processed.                                                    *)
(***************************************************************************)
Min2(a, b) == IF a <= b THEN a ELSE b

Raises(f) == f.fails
\* the pages a stage gets through before it raises, of the n it would process
PagesDone(f, n) == IF ~f.fails THEN n
                   ELSE IF f.at = 0 THEN 0 ELSE Min2(f.at - 1, n)

\* the page texts kept by "if text and text.strip()"
RECURSIVE NonBlank(_)
NonBlank(texts) ==
    IF texts = <<>> THEN <<>>
    ELSE (IF py_strip(texts[1]) # <<>> THEN <<texts[1]>> ELSE <<>>)
         \o NonBlank(Tail(texts))

NativeTexts(doc, n)  == [j \in 1..n |-> doc.pages[j].native]
PlumberTexts(doc, n) == [j \in 1..n |-> doc.pages[j].plumber]
OcrTexts(doc, n)     == [j \in 1..n |-> doc.pages[j].ocr]

\* lines 28-39: the PyMuPDF text layer
NativeStage(doc) ==
    LET chunks == NonBlank(NativeTexts(doc, PagesDone(doc.native, Len(doc.pages))))
    IN  [text_chunks |-> chunks,
         text        |-> py_strip(py_join(<<"\n">>, chunks)),
         raised      |-> Raises(doc.native)]

\* line 42 with the bound included: a text of exactly MinTextLen characters
\* would still go to pdfplumber
NeedsAlternateInclusive(loc) == Len(loc.text) <= MinTextLen

\* line 42
NeedsAlternate(loc) == Len(loc.text) < MinTextLen

\* lines 43-51 with line 49 inside the loop: the pages pdfplumber read before
\* it raised would reach the text
AlternateStageEager(loc, doc) ==
    LET chunks == loc.text_chunks
                  \o NonBlank(PlumberTexts(doc, PagesDone(doc.plumber, Len(doc.pages))))
    IN  [text_chunks |-> chunks,
         text        |-> py_strip(py_join(<<"\n">>, chunks)),
         raised      |-> Raises(doc.plumber)]

\* lines 43-51: pdfplumber; text is assigned after the loop only
AlternateStage(loc, doc) ==
    LET chunks == loc.text_chunks
                  \o NonBlank(PlumberTexts(doc, PagesDone(doc.plumber, Len(doc.pages))))
    IN  [text_chunks |-> chunks,
         text        |-> IF Raises(doc.plumber) THEN loc.text
                         ELSE py_strip(py_join(<<"\n">>, chunks)),
         raised      |-> Raises(doc.plumber)]

\* line 54
NeedsOcr(loc, use_ocr) == use_ocr /\ Len(loc.text) < MinTextLen

\* whether the OCR stage raises: its failing page must be among those it reads
OcrRaises(doc, max_pages) ==
    /\ doc.ocr.fails
    /\ doc.ocr.at <= Min2(Len(doc.pages), max_pages)

\* lines 55-66: OCR of the first pages, replacing the text
OcrStage(loc, doc, max_pages) ==
    LET pages_to_ocr == Min2(Len(doc.pages), max_pages)
    IN  [text_chunks |-> loc.text_chunks,
         text        |-> IF OcrRaises(doc, max_pages) THEN loc.text
                         ELSE py_strip(py_join(<<"\n">>, OcrTexts(doc, pages_to_ocr))),
         raised      |-> OcrRaises(doc, max_pages)]

extract_text_pdf(doc, use_ocr, max_pages) ==
    LET l1 == NativeStage(doc)
        l2 == IF NeedsAlternate(l1) THEN AlternateStage(l1, doc) ELSE l1
        l3 == IF NeedsOcr(l2, use_ocr) THEN OcrStage(l2, doc, max_pages) ELSE l2
    IN  l3.text

\* a DOCX is its paragraphs, or a failure of Document(path)
extract_text_docx(docx) ==
    IF docx.fails THEN <<>> ELSE py_join(<<"\n">>, docx.paragraphs)

(***************************************************************************)
(* os.path on POSIX paths.                                                 *)
(***************************************************************************)
RECURSIVE LastIndexOf(_, _, _)
LastIndexOf(s, c, i) ==
    IF i < 1 THEN 0 ELSE IF s[i] = c THEN i ELSE LastIndexOf(s, c, i - 1)

basename(path) == SubSeq(path, LastIndexOf(path, "/", Len(path)) + 1, Len(path))

dirname(path) ==
    LET head == SubSeq(path, 1, LastIndexOf(path, "/", Len(path)))
        last == LastNotIn(head, {"/"}, Len(head))
    IN  IF last = 0 THEN head ELSE SubSeq(head, 1, last)

\* os.path.splitext(path)[1]: from the last dot of the base name, leading dots aside
splitext_ext(path) ==
    LET sep   == LastIndexOf(path, "/", Len(path))
        dot   == LastIndexOf(path, ".", Len(path))
        first == FirstNotIn(path, {"."}, sep + 1)
    IN  IF dot > sep /\ dot > first THEN SubSeq(path, dot, Len(path)) ELSE <<>>

(***************************************************************************)
(* The files of the runs.  A file is what each reader makes of it: the     *)
(* PDF readers, python-docx, os.path.getsize and sha256.                   *)
(***************************************************************************)
NoFail    == [fails |-> FALSE, at |-> 0]
FailAt(j) == [fails |-> TRUE, at |-> j]

Page(native, plumber, ocr) == [native |-> native, plumber |-> plumber, ocr |-> ocr]

\* what the readers make of a file that is no PDF, or is not there
NoPdf  == [pages |-> <<>>, native |-> FailAt(0), plumber |-> FailAt(0), ocr |-> FailAt(0)]
NoDocx == [fails |-> TRUE, paragraphs |-> <<>>]

TXT_IdSerial == <<"A","B","C","-","1","2","3","\n","S","N",":"," ","A","B","1","2","3","4","5">>
TXT_Pump     == <<"P","u","m","p"," ","M","a","n","u","a","l">>
TXT_Model    == <<"M","o","d","e","l",":"," ","X","-","2","0","0">>
TXT_MadeBy   == <<"M","a","d","e"," ","b","y"," ","A","c","m","e">>
TXT_Note     == <<"T","A","G"," ","4","7","1","1">>

PATH_A    == <<"/","p","1","/","a",".","p","d","f">>
PATH_B    == <<"/","p","1","/","b",".","d","o","c","x">>
PATH_Note == <<"/","p","2","/","n","o","t","e","s",".","t","x","t">>
PATH_Gone == <<"/","p","1","/","g","o","n","e",".","p","d","f">>

HASH_1 == <<"h","1">>
HASH_2 == <<"h","2">>

\* a.pdf: a short text layer, pdfplumber raises, tesseract is not installed
FILE_A == [path |-> PATH_A, exists |-> TRUE, digest |-> HASH_2, size |-> 2, mtime |-> 1,
           pdf  |-> [pages |-> <<Page(TXT_IdSerial, <<>>, <<>>)>>,
                     native |-> NoFail, plumber |-> FailAt(1), ocr |-> FailAt(0)],
           docx |-> NoDocx]
\* b.docx: three paragraphs
FILE_B == [path |-> PATH_B, exists |-> TRUE, digest |-> HASH_2, size |-> 3, mtime |-> 1,
           pdf  |-> NoPdf,
           docx |-> [fails |-> FALSE, paragraphs |-> <<TXT_Pump, TXT_Model, TXT_MadeBy>>]]
\* notes.txt: a type extract_text_any does not read; its bytes are those the
\* registry holds a hash of
FILE_Note == [path |-> PATH_Note, exists |-> TRUE, digest |-> HASH_1, size |-> 1, mtime |-> 1,
              pdf  |-> [pages |-> <<Page(TXT_Note, TXT_Note, TXT_Note)>>,
                        native |-> NoFail, plumber |-> NoFail, ocr |-> NoFail],
              docx |-> NoDocx]

FS == {FILE_A, FILE_B, FILE_Note}

\* gone.pdf is a path with no file
Paths == {PATH_A, PATH_B, PATH_Note, PATH_Gone}

Lookup(path) ==
    IF \E f \in FS : f.path = path
    THEN CHOOSE f \in FS : f.path = path
    ELSE [path |-> path, exists |-> FALSE, digest |-> <<>>, size |-> 0, mtime |-> 0,
          pdf |-> NoPdf, docx |-> NoDocx]

EXT_pdf  == <<".","p","d","f">>
EXT_docx == <<".","d","o","c","x">>

\* the unrecognized-type branch handing the file to the PDF readers
OtherTextAsPdf(f) == extract_text_pdf(f.pdf, TRUE, DefaultMaxPagesOcr)

\* the unrecognized-type branch of extract_text_any
OtherText(f) == <<>>

extract_text_any(path) ==
    LET ext == py_lower(splitext_ext(path))
    IN  IF ext = EXT_pdf THEN extract_text_pdf(Lookup(path).pdf, TRUE, DefaultMaxPagesOcr)
        ELSE IF ext = EXT_docx THEN extract_text_docx(Lookup(path).docx)
        ELSE OtherText(Lookup(path))

(***************************************************************************)
(* The registry rows of the runs (assets_df.to_dict(orient="records")).    *)
(***************************************************************************)
Cols == {"asset_id", "external_id", "tag", "name", "manufacturer", "model",
         "serial", "project", "file_hash"}

Row(asset_id, name, manufacturer, model, serial, project, file_hash) ==
    [asset_id |-> asset_id, external_id |-> PyStr(<<>>), tag |-> PyStr(<<>>),
     name |-> name, manufacturer |-> manufacturer, model |-> model,
     serial |-> serial, project |-> project, file_hash |-> file_hash]

\* a complete row; a.pdf and b.docx are its manuals, notes.txt has its stored hash
ASSET_Pump ==
    Row(PyStr(<<"A","B","C","-","1","2","3">>), PyStr(<<"P","u","m","p">>), PyStr(<<"A","c","m","e">>), PyStr(<<"X","-","2","0","0">>), PyStr(<<"A","B","1","2","3","4","5">>),
        PyStr(<<"p","1">>), PyStr(HASH_1))
\* two rows of another project that carry the serial of a.pdf as their id
ASSET_Fan ==
    Row(PyStr(<<"A","B","1","2","3","4","5">>), PyStr(<<"F","a","n">>), PyStr(<<>>), PyStr(<<>>), PyStr(<<"A","B","1","2","3","4","5">>),
        PyStr(<<"p","9">>), PyStr(<<>>))
ASSET_Blower ==
    Row(PyStr(<<"A","B","1","2","3","4","5">>), PyStr(<<"B","l","o","w","e","r">>), PyStr(<<>>), PyStr(<<>>), PyStr(<<"A","B","1","2","3","4","5">>),
        PyStr(<<"p","9">>), PyStr(<<>>))
\* a row read from a CSV line with only its id filled in
ASSET_Blank ==
    Row(PyStr(<<"X","Y","-","9","9","9">>), PyNaN, PyNaN, PyNaN, PyNaN, PyNaN, PyNaN)

(***************************************************************************)
(* match_files_to_assets.                                                  *)
(***************************************************************************)
\* lines 236-237
SignalsOf(txt) ==
    LET ids == parse_identifiers(txt)
    IN  [asset_ids |-> ids.asset_ids, serials |-> ids.serials, models |-> ids.models,
         manufacturers |-> ids.manufacturers, title_terms |-> guess_title_terms(txt)]

\* os.path.getsize raises FileNotFoundError for a path with no file
MetaRaises(path) == ~Lookup(path).exists

\* lines 239-246
MetaOf(path, with_hash) ==
    [file_path |-> path, dir |-> dirname(path), name |-> basename(path),
     size |-> Lookup(path).size, mtime |-> Lookup(path).mtime,
     hash |-> IF with_hash THEN PyStr(Lookup(path).digest) ELSE PyNone]

\* line 248 moved before the loop over the paths: the candidates of the
\* documents before would stay in the list
ScoredKept(prev) == prev

\* line 248: scored = []
ScoredInit(prev) == <<>>

\* ", ".join(reasons): the tags with ", " between them
RECURSIVE JoinReasons(_)
JoinReasons(reasons) ==
    IF reasons = <<>> THEN <<>>
    ELSE IF Len(reasons) = 1 THEN <<reasons[1]>>
    ELSE <<reasons[1], Reason(", ")>> \o JoinReasons(Tail(reasons))

\* lines 251-261
Candidate(a, r) ==
    [asset_id |-> Get(a, "asset_id", PyNone), name |-> Get(a, "name", PyStr(<<>>)),
     score |-> r.score, reasons |-> JoinReasons(r.reasons),
     manufacturer |-> Get(a, "manufacturer", PyStr(<<>>)),
     model |-> Get(a, "model", PyStr(<<>>)), serial |-> Get(a, "serial", PyStr(<<>>)),
     external_id |-> Get(a, "external_id", PyStr(<<>>)),
     project |-> Get(a, "project", PyStr(<<>>))]

\* an insertion that puts a candidate before those of its own score: what an
\* ascending sort followed by a reversal gives
RECURSIVE InsertDescUnstable(_, _)
InsertDescUnstable(sorted, x) ==
    IF sorted = <<>> THEN <<x>>
    ELSE IF sorted[1].score > x.score
    THEN <<sorted[1]>> \o InsertDescUnstable(Tail(sorted), x)
    ELSE <<x>> \o sorted

\* list.sort(key=score, reverse=True): stable, equal scores keep their order
RECURSIVE InsertDesc(_, _)
InsertDesc(sorted, x) ==
    IF sorted = <<>> THEN <<x>>
    ELSE IF sorted[1].score >= x.score THEN <<sorted[1]>> \o InsertDesc(Tail(sorted), x)
    ELSE <<x>> \o sorted

RECURSIVE SortDesc(_, _)
SortDesc(sorted, rest) ==
    IF rest = <<>> THEN sorted ELSE SortDesc(InsertDesc(sorted, rest[1]), Tail(rest))

sort_by_score(cands) == SortDesc(<<>>, cands)

\* scored[:5]
TopOf(cands) == SubSeq(cands, 1, Min2(Len(cands), TopN))

\* line 270; None is the empty sequence, a choice the sequence of that candidate
AutoChoice(top) ==
    IF top # <<>> /\ top[1].score >= AutoChoiceScore THEN <<top[1]>> ELSE <<>>

\* lines 266-271
OkResult(path, sig, cands) ==
    LET top == TopOf(sort_by_score(cands))
    IN  [file_path |-> path, signals |-> sig, top_candidates |-> top,
         auto_choice |-> AutoChoice(top)]

\* lines 273-277
ErrorResult(path, e) == [file_path |-> path, error |-> e, top_candidates |-> <<>>]

IsError(r) == "error" \in DOMAIN r

\* the head of "for path in file_paths"
Advance(k) == IF k > Len(file_paths) THEN "return" ELSE "extract"

Path == file_paths[path_idx]

m_vars    == <<file_paths, assets, compute_hash, results, m_pc, path_idx, asset_idx,
               m_text, signals, meta, scored>>
ui_vars   == <<auto_confirm_threshold, default_index>>
pdf_vars  == <<pdf_doc, use_ocr_if_empty, max_pages_ocr, pdf_pc, text_chunks, text,
               stage_log>>
sc_vars   == <<sc_args, sc_ret>>

\* the except branch: the result of the document, and on to the next path
Except(e) ==
    /\ results' = Append(results, ErrorResult(Path, e))
    /\ path_idx' = path_idx + 1
    /\ m_pc' = Advance(path_idx + 1)

\* extract_text_any and the signals of its text for the paths of the runs,
\* computed once
TextOfPath    == [p \in Paths |-> extract_text_any(p)]
SignalsOfPath == [p \in Paths |-> SignalsOf(TextOfPath[p])]

\* lines 235-237
Extract ==
    /\ m_pc = "extract"
    /\ m_text' = TextOfPath[Path]
    /\ signals' = SignalsOfPath[Path]
    /\ m_pc' = "meta"
    /\ UNCHANGED <<file_paths, assets, compute_hash, results, path_idx, asset_idx,
                   meta, scored>>
    /\ UNCHANGED <<fuzz_other, pdf_vars, sc_vars, ui_vars>>

\* lines 239-248
Meta ==
    /\ m_pc = "meta"
    /\ IF MetaRaises(Path)
       THEN /\ Except("FileNotFoundError")
            /\ UNCHANGED <<meta, scored, asset_idx>>
       ELSE /\ meta' = MetaOf(Path, compute_hash)
            /\ scored' = ScoredInit(scored)
            /\ asset_idx' = 1
            /\ m_pc' = "score"
            /\ UNCHANGED <<results, path_idx>>
    /\ UNCHANGED <<file_paths, assets, compute_hash, m_text, signals>>
    /\ UNCHANGED <<fuzz_other, pdf_vars, sc_vars, ui_vars>>

\* lines 249-261: one turn of "for a in assets"
ScoreAsset ==
    /\ m_pc = "score"
    /\ asset_idx <= Len(assets)
    /\ LET r == score_candidate(meta, assets[asset_idx], signals)
       IN  IF r.raised
           THEN /\ Except(r.error)
                /\ UNCHANGED <<scored, asset_idx>>
           ELSE /\ scored' = Append(scored, Candidate(assets[asset_idx], r))
                /\ asset_idx' = asset_idx + 1
                /\ UNCHANGED <<results, path_idx, m_pc>>
    /\ UNCHANGED <<file_paths, assets, compute_hash, m_text, signals, meta>>
    /\ UNCHANGED <<fuzz_other, pdf_vars, sc_vars, ui_vars>>

\* lines 263-271
Rank ==
    /\ m_pc = "score"
    /\ asset_idx > Len(assets)
    /\ results' = Append(results, OkResult(Path, signals, scored))
    /\ path_idx' = path_idx + 1
    /\ m_pc' = Advance(path_idx + 1)
    /\ UNCHANGED <<file_paths, assets, compute_hash, asset_idx, m_text, signals, meta,
                   scored>>
    /\ UNCHANGED <<fuzz_other, pdf_vars, sc_vars, ui_vars>>

\* line 279, and streamlitapp.py line 48
Return ==
    /\ m_pc = "return"
    /\ m_pc' = "ui"
    /\ UNCHANGED <<file_paths, assets, compute_hash, results, path_idx, asset_idx,
                   m_text, signals, meta, scored>>
    /\ UNCHANGED <<fuzz_other, pdf_vars, sc_vars, ui_vars>>

(***************************************************************************)
(* streamlitapp.py: the option preselected for a result.                   *)
(***************************************************************************)
\* U+2014, the dash of the option labels, written as a character that no
\* modelled string holds
EMDASH == "~"

RECURSIVE Digits(_)
Digits(n) == IF n < 10 THEN <<DigitSeq[n + 1]>>
             ELSE Digits(n \div 10) \o <<DigitSeq[(n % 10) + 1]>>

startswith(s, prefix) ==
    Len(prefix) <= Len(s) /\ SubSeq(s, 1, Len(prefix)) = prefix

\* line 76: f"{c['asset_id']} — {c['name']} (score {c['score']})"
OptionLabel(c) ==
    py_str(c.asset_id) \o <<" ", EMDASH, " ">> \o py_str(c.name)
    \o <<" ","(","s","c","o","r","e"," ">> \o Digits(c.score) \o <<")">>

Options(r) == <<LIT_None>> \o [j \in 1..Len(r.top_candidates) |->
                                   OptionLabel(r.top_candidates[j])]

\* lines 77-86; indexes count from 0
DefaultIndex(r, threshold) ==
    IF IsError(r) \/ r.auto_choice = <<>> THEN 0
    ELSE IF r.auto_choice[1].score >= threshold
    THEN LET opts   == Options(r)
             prefix == py_str(r.auto_choice[1].asset_id) \o <<" ", EMDASH>>
             hits   == {j \in 1..Len(opts) : startswith(opts[j], prefix)}
         IN  IF hits = {} THEN 0
             ELSE (CHOOSE j \in hits : \A h \in hits : j <= h) - 1
    ELSE 0

\* lines 55-88: one turn of "for r in results"
ShowResult ==
    /\ m_pc = "ui"
    /\ Len(default_index) < Len(results)
    /\ default_index' = Append(default_index,
                               DefaultIndex(results[Len(default_index) + 1],
                                            auto_confirm_threshold))
    /\ UNCHANGED <<m_vars, auto_confirm_threshold>>
    /\ UNCHANGED <<fuzz_other, pdf_vars, sc_vars>>

(***************************************************************************)
(* extract_text_pdf, stage by stage.  stage_log records each stage that    *)
(* was attempted: whether it raised, and the text before and after it.     *)
(***************************************************************************)
Logged(stage, loc, before) ==
    Append(stage_log, [stage |-> stage, raised |-> loc.raised,
                       before |-> before, after |-> loc.text])

\* lines 28-39
NativeParse ==
    /\ pdf_pc = "native"
    /\ LET loc == NativeStage(pdf_doc)
       IN  /\ text_chunks' = loc.text_chunks
           /\ text' = loc.text
           /\ stage_log' = Logged("native", loc, <<>>)
    /\ pdf_pc' = "alternate"
    /\ UNCHANGED <<pdf_doc, use_ocr_if_empty, max_pages_ocr>>
    /\ UNCHANGED <<fuzz_other, sc_vars, m_vars, ui_vars>>

\* lines 42-51
AlternateParse ==
    /\ pdf_pc = "alternate"
    /\ NeedsAlternate([text_chunks |-> text_chunks, text |-> text])
    /\ LET loc == AlternateStage([text_chunks |-> text_chunks, text |-> text], pdf_doc)
       IN  /\ text_chunks' = loc.text_chunks
           /\ text' = loc.text
           /\ stage_log' = Logged("alternate", loc, text)
    /\ pdf_pc' = "ocr"
    /\ UNCHANGED <<pdf_doc, use_ocr_if_empty, max_pages_ocr>>
    /\ UNCHANGED <<fuzz_other, sc_vars, m_vars, ui_vars>>

\* line 42, the condition false
SkipAlternate ==
    /\ pdf_pc = "alternate"
    /\ ~NeedsAlternate([text_chunks |-> text_chunks, text |-> text])
    /\ pdf_pc' = "ocr"
    /\ UNCHANGED <<pdf_doc, use_ocr_if_empty, max_pages_ocr, text_chunks, text, stage_log>>
    /\ UNCHANGED <<fuzz_other, sc_vars, m_vars, ui_vars>>

\* lines 54-66
Ocr ==
    /\ pdf_pc = "ocr"
    /\ NeedsOcr([text_chunks |-> text_chunks, text |-> text], use_ocr_if_empty)
    /\ LET loc == OcrStage([text_chunks |-> text_chunks, text |-> text], pdf_doc,
                           max_pages_ocr)
       IN  /\ text' = loc.text
           /\ stage_log' = Logged("ocr", loc, text)
    /\ pdf_pc' = "return"
    /\ UNCHANGED <<pdf_doc, use_ocr_if_empty, max_pages_ocr, text_chunks>>
    /\ UNCHANGED <<fuzz_other, sc_vars, m_vars, ui_vars>>

\* line 54, the condition false
SkipOcr ==
    /\ pdf_pc = "ocr"
    /\ ~NeedsOcr([text_chunks |-> text_chunks, text |-> text], use_ocr_if_empty)
    /\ pdf_pc' = "return"
    /\ UNCHANGED <<pdf_doc, use_ocr_if_empty, max_pages_ocr, text_chunks, text, stage_log>>
    /\ UNCHANGED <<fuzz_other, sc_vars, m_vars, ui_vars>>

\* line 68: text is the value returned
ReturnText ==
    /\ pdf_pc = "return"
    /\ pdf_pc' = "done"
    /\ UNCHANGED <<pdf_doc, use_ocr_if_empty, max_pages_ocr, text_chunks, text, stage_log>>
    /\ UNCHANGED <<fuzz_other, sc_vars, m_vars, ui_vars>>

(***************************************************************************)
(* One call of score_candidate.                                            *)
(***************************************************************************)
CallScore ==
    /\ sc_args # <<>>
    /\ sc_ret = <<>>
    /\ sc_ret' = <<score_candidate(sc_args[1].file_meta, sc_args[1].asset_row,
                                   sc_args[1].signals)>>
    /\ UNCHANGED <<sc_args, fuzz_other, pdf_vars, m_vars, ui_vars>>

(***************************************************************************)
(* Initial states.                                                         *)
(***************************************************************************)
SeqsUpTo(S, n) == UNION {[1..k -> S] : k \in 0..n}

\* fuzz_other: below both thresholds of the name rule, between them, above
FuzzOracles == {[b \in BOOLEAN |-> IF b THEN hi ELSE lo] :
                    lo \in {50, 85}, hi \in {85, 95}}

PdfIdle ==
    /\ pdf_doc = NoPdf
    /\ use_ocr_if_empty = TRUE
    /\ max_pages_ocr = DefaultMaxPagesOcr
    /\ pdf_pc = "idle"
    /\ text_chunks = <<>>
    /\ text = <<>>
    /\ stage_log = <<>>

ScoreIdle == sc_args = <<>> /\ sc_ret = <<>>

MatchIdle ==
    /\ file_paths = <<>>
    /\ assets = <<>>
    /\ compute_hash = FALSE
    /\ results = <<>>
    /\ m_pc = "idle"
    /\ path_idx = 1
    /\ asset_idx = 1
    /\ m_text = <<>>
    /\ signals = SignalsOf(<<>>)
    /\ meta = MetaOf(<<>>, FALSE)
    /\ scored = <<>>
    /\ auto_confirm_threshold = SliderDefault
    /\ default_index = <<>>

\* the locals of match_files_to_assets before its loop
MatchStart ==
    /\ results = <<>>
    /\ m_pc = Advance(1)
    /\ path_idx = 1
    /\ asset_idx = 1
    /\ m_text = <<>>
    /\ signals = SignalsOf(<<>>)
    /\ meta = MetaOf(<<>>, FALSE)
    /\ scored = <<>>
    /\ default_index = <<>>

\* the batches and registries of the runs; the slider of the sidebar
Thresholds == {SliderMin, SliderDefault, SliderMax}
Registry   == {ASSET_Pump, ASSET_Fan, ASSET_Blank}

Init ==
    /\ fuzz_other \in {f \in FuzzOracles : f[TRUE] = 95 /\ f[FALSE] = 50}
    /\ PdfIdle
    /\ ScoreIdle
    /\ file_paths \in SeqsUpTo(Paths, MaxFiles)
    /\ assets \in SeqsUpTo(Registry, MaxAssets)
    /\ compute_hash \in BOOLEAN
    /\ auto_confirm_threshold \in Thresholds
    /\ MatchStart

Next == Extract \/ Meta \/ ScoreAsset \/ Rank \/ Return \/ ShowResult

Spec == Init /\ [][Next]_vars

\* one document against registries of up to MaxRegistry rows without a missing
\* cell, rows of equal score among them
RankRegistry == {ASSET_Pump, ASSET_Fan, ASSET_Blower}

InitRank ==
    /\ fuzz_other \in {f \in FuzzOracles : f[TRUE] = 95 /\ f[FALSE] = 50}
    /\ PdfIdle
    /\ ScoreIdle
    /\ file_paths \in {<<PATH_A>>, <<PATH_B>>}
    /\ assets \in SeqsUpTo(RankRegistry, MaxRegistry)
    /\ compute_hash = FALSE
    /\ auto_confirm_threshold = SliderDefault
    /\ MatchStart

SpecRank == InitRank /\ [][Next]_vars

(***************************************************************************)
(* extract_text_pdf on its own: the documents, over pages of four kinds.   *)
(* The text of the three readers is told apart by its letter.              *)
(***************************************************************************)
Fill(c, n) == [j \in 1..n |-> c]

\* a scanned page: no text layer, tesseract reads it
PAGE_Scan == Page(<<" ", "\n">>, <<>>, TXT_IdSerial)
\* a page with as much text as the threshold asks for
PAGE_Full == Page(Fill("n", MinTextLen), Fill("p", MinTextLen), Fill("o", MinTextLen))
\* a page two characters short of it once stripped
PAGE_Near == Page(Fill("n", MinTextLen - 2) \o <<"\n", "\n">>, TXT_Model,
                  Fill("o", MinTextLen + 1))
\* two of these have one character less than the threshold in the text layer
PAGE_Half == Page(Fill("n", (MinTextLen \div 2) - 1), Fill("p", MinTextLen \div 2),
                  <<" ">>)

PageKinds == {PAGE_Scan, PAGE_Full, PAGE_Near, PAGE_Half}

FailPoints(n) == {NoFail} \cup {FailAt(j) : j \in 0..n}

PdfDocs ==
    UNION {{[pages |-> ps, native |-> f1, plumber |-> f2, ocr |-> f3] :
                f1 \in FailPoints(Len(ps)), f2 \in FailPoints(Len(ps)),
                f3 \in FailPoints(Len(ps))} :
           ps \in SeqsUpTo(PageKinds, MaxPages)}

InitPdf ==
    /\ fuzz_other \in {f \in FuzzOracles : f[TRUE] = 95 /\ f[FALSE] = 50}
    /\ ScoreIdle
    /\ MatchIdle
    /\ pdf_doc \in PdfDocs
    /\ use_ocr_if_empty \in BOOLEAN
    /\ max_pages_ocr \in {1, DefaultMaxPagesOcr}
    /\ pdf_pc = "native"
    /\ text_chunks = <<>>
    /\ text = <<>>
    /\ stage_log = <<>>

NextPdf == NativeParse \/ AlternateParse \/ SkipAlternate \/ Ocr \/ SkipOcr \/ ReturnText

SpecPdf == InitPdf /\ [][NextPdf]_vars

(***************************************************************************)
(* score_candidate on its own: signals parsed from five texts, the file    *)
(* metadata of two folders with and without a hash, and registry rows with *)
(* up to MaxMissing cells missing in one of the four ways a cell can be.   *)
(***************************************************************************)
TXT_Full    == <<"P","u","m","p"," ","M","a","n","u","a","l","\n","A","B","C","-","1","2","3"," ","S","N",":"," ","A","B","1","2","3","4","5","\n","M","o","d","e","l",":"," ","X","-","2","0","0","\n","T","y","p","e"," ","X","-","2","0","0","A","\n","M","a","n","u","f","a","c","t","u","r","e","r",":"," ","A","c","m","e","\n","M","a","d","e"," ","b","y"," ","A","c","m","e"," ","I","n","c">>
TXT_Partial == <<"F","a","n"," ","G","u","i","d","e","\n","M","o","d","e","l",":"," ","X","-","2","0","0","A">>
TXT_NoneNan == <<"M","o","d","e","l",":"," ","N","o","n","e","\n","S","N",":","-","N","O","N","E","\n","M","a","d","e"," ","b","y"," ","N","a","n","\n","M","o","d","e","l"," ","N","A","N","O","-","2","0","0","\n","S","N",":","-","-","N","A","N">>

ScoreTexts == {<<>>, TXT_IdSerial, TXT_Full, TXT_Partial, TXT_NoneNan}

ScoreSignals == {SignalsOf(t) : t \in ScoreTexts}

ScoreMetas ==
    {[file_path |-> d \o <<"/","a",".","p","d","f">>, dir |-> d, name |-> <<"a",".","p","d","f">>, size |-> 1, mtime |-> 1,
      hash |-> h] : d \in {<<"/","p","1">>, <<"/","p","2">>}, h \in {PyNone, PyStr(HASH_1), PyStr(HASH_2)}}

MissingKinds == {"absent", "None", "empty", "nan"}

\* row with the cells of the columns S missing in the way kind
Without(row, S, kind) ==
    [c \in (IF kind = "absent" THEN DOMAIN row \ S ELSE DOMAIN row) |->
        IF c \notin S THEN row[c]
        ELSE CASE kind = "None"  -> PyNone
               [] kind = "empty" -> PyStr(<<>>)
               [] OTHER          -> PyNaN]

ScoreRows ==
    {Without(row, S, kind) :
        row \in {ASSET_Pump, ASSET_Fan},
        S \in {X \in SUBSET Cols : Cardinality(X) <= MaxMissing},
        kind \in MissingKinds}

InitScore ==
    /\ fuzz_other \in FuzzOracles
    /\ PdfIdle
    /\ MatchIdle
    /\ sc_args \in {<<[file_meta |-> m, asset_row |-> a, signals |-> g]>> :
                        m \in ScoreMetas, a \in ScoreRows, g \in ScoreSignals}
    /\ sc_ret = <<>>

NextScore == CallScore

SpecScore == InitScore /\ [][NextScore]_vars

(***************************************************************************)
(* Properties of extract_text_pdf (SpecPdf).                               *)
(***************************************************************************)
Attempted(stage) == \E k \in DOMAIN stage_log : stage_log[k].stage = stage

PastAlternate == pdf_pc \in {"ocr", "return", "done"}
PastOcr       == pdf_pc \in {"return", "done"}

\* the text when the OCR condition of line 54 is read
TextAfterTwo ==
    IF Attempted("alternate") THEN stage_log[2].after ELSE stage_log[1].after

\* C6: when the PyMuPDF text layer gives MinTextLen characters or more, neither
\* pdfplumber nor OCR is invoked; and OCR is invoked only when the text after the
\* first two stages is shorter than MinTextLen and OCR fallback is enabled.
C6_FallbackPreference ==
    /\ (PastOcr /\ Len(stage_log[1].after) >= MinTextLen)
          => (~Attempted("alternate") /\ ~Attempted("ocr"))
    /\ Attempted("ocr") => (use_ocr_if_empty /\ Len(TextAfterTwo) < MinTextLen)

\* C6 witness: a run that ended with a full text layer and nothing but
\* PyMuPDF invoked
C6_Witness ==
    /\ pdf_pc = "done"
    /\ Len(stage_log[1].after) >= MinTextLen
    /\ Len(stage_log) = 1
    /\ use_ocr_if_empty

\* the text PyMuPDF read before it raised while reading page `at`
NativeSoFar ==
    py_strip(py_join(<<"\n">>,
        NonBlank(NativeTexts(pdf_doc, IF pdf_doc.native.at = 0 THEN 0
                                      ELSE pdf_doc.native.at - 1))))

\* every stage that was attempted raised
NoStageSucceeded == \A k \in DOMAIN stage_log : stage_log[k].raised

\* C9 as stated: the call returns the text left by the last stage it attempted,
\* raised or not; no stage's failure keeps a later stage from running whenever
\* the text so far is shorter than MinTextLen, a failed stage leaves the text of
\* the earlier successful stages, and the result is empty if none succeeded.
C9_AsStated ==
    /\ pdf_pc = "done" => text = stage_log[Len(stage_log)].after
    /\ (PastAlternate /\ Len(stage_log[1].after) < MinTextLen) => Attempted("alternate")
    /\ (PastOcr /\ Len(TextAfterTwo) < MinTextLen) => Attempted("ocr")
    /\ \A k \in DOMAIN stage_log :
          stage_log[k].raised => stage_log[k].after = stage_log[k].before
    /\ (pdf_pc = "done" /\ NoStageSucceeded) => text = <<>>

\* C9 amended: the call returns the text left by the last stage it attempted,
\* raised or not; pdfplumber runs whenever the text so far
\* is shorter than MinTextLen, and OCR whenever it is and OCR fallback is enabled,
\* whichever stages failed before; a failed pdfplumber or OCR stage leaves the
\* text as it was, a failed PyMuPDF stage leaves the pages it read before it
\* failed; and the result is empty when every stage failed and PyMuPDF had read
\* no text.
C9_StageFaultTolerance ==
    /\ pdf_pc = "done" => text = stage_log[Len(stage_log)].after
    /\ (PastAlternate /\ Len(stage_log[1].after) < MinTextLen) => Attempted("alternate")
    /\ (PastOcr /\ use_ocr_if_empty /\ Len(TextAfterTwo) < MinTextLen)
          => Attempted("ocr")
    /\ \A k \in DOMAIN stage_log :
          stage_log[k].raised =>
              stage_log[k].after = IF stage_log[k].stage = "native" THEN NativeSoFar
                                   ELSE stage_log[k].before
    /\ (pdf_pc = "done" /\ NoStageSucceeded) => text = NativeSoFar

\* C9 witness: all three stages were attempted and raised, pdfplumber after it
\* had read a page, and the pages PyMuPDF had read are what is returned
C9_Witness ==
    /\ pdf_pc = "done"
    /\ Len(stage_log) = 3
    /\ NoStageSucceeded
    /\ pdf_doc.plumber.at = 2
    /\ pdf_doc.pages[1].plumber # <<>>
    /\ text # <<>>

(***************************************************************************)
(* Properties of score_candidate (SpecScore).                              *)
(***************************************************************************)
ScoreCalled   == sc_ret # <<>>
ScoreReturned == ScoreCalled /\ ~sc_ret[1].raised

RetTags == {sc_ret[1].reasons[k].tag : k \in DOMAIN sc_ret[1].reasons}

Count(reasons, tag) == Cardinality({k \in DOMAIN reasons : reasons[k].tag = tag})

\* C7: the reasons of one candidate hold at most one of model_match and
\* model_partial, the partial rule being tried only when the exact one failed.
C7_ModelExclusive ==
    ScoreReturned =>
        Count(sc_ret[1].reasons, "model_match")
            + Count(sc_ret[1].reasons, "model_partial") <= 1

\* C7 witness: the asset's model is among the document's models and a longer
\* document model contains it, and the call returned model_match
C7_Witness ==
    /\ ScoreReturned
    /\ "model_match" \in RetTags
    /\ \E j \in DOMAIN sc_args[1].signals.models :
          /\ Len(sc_args[1].signals.models[j]) >= 4
          /\ sc_args[1].signals.models[j] # py_upper(py_str(sc_args[1].asset_row["model"]))
          /\ py_contains(py_upper(py_str(sc_args[1].asset_row["model"])),
                         sc_args[1].signals.models[j])

\* the points a reason stands for
Weight(r) ==
    CASE r.tag = "id_match"      -> 50
      [] r.tag = "serial_match"  -> 25
      [] r.tag = "model_match"   -> 20
      [] r.tag = "model_partial" -> 15
      [] r.tag = "manufacturer"  -> 10
      [] r.tag = "fuzzy_name"    -> IF r.sim >= 90 THEN 20 ELSE 10
      [] r.tag = "folder_hint"   -> 10
      [] r.tag = "hash_match"    -> 0

\* the place of a reason's rule in the order of evaluation
Place(r) ==
    CASE r.tag = "id_match"      -> 1
      [] r.tag = "serial_match"  -> 2
      [] r.tag = "model_match"   -> 3
      [] r.tag = "model_partial" -> 3
      [] r.tag = "manufacturer"  -> 4
      [] r.tag = "fuzzy_name"    -> 5
      [] r.tag = "folder_hint"   -> 6
      [] r.tag = "hash_match"    -> 7

RECURSIVE SumWeights(_)
SumWeights(reasons) ==
    IF reasons = <<>> THEN 0 ELSE Weight(reasons[1]) + SumWeights(Tail(reasons))

\* C10: the score is a non-negative integer, the sum S of the weights of the
\* reasons, or max(S, 100) when hash_match is among them; a fuzzy name reason
\* carries a similarity of 80 or more; and the reasons come in the order id,
\* serial, model, manufacturer, fuzzy name, folder, hash, the manufacturer one
\* alone possibly repeated.
C10_ScoreReasonConsistency ==
    ScoreReturned =>
        LET ret == sc_ret[1]
            S   == SumWeights(ret.reasons)
        IN  /\ ret.score \in Nat
            /\ ret.score = IF "hash_match" \in RetTags THEN Max2(S, 100) ELSE S
            /\ \A k \in DOMAIN ret.reasons :
                  ret.reasons[k].tag = "fuzzy_name" => ret.reasons[k].sim >= 80
            /\ \A k \in DOMAIN ret.reasons : \A l \in DOMAIN ret.reasons :
                  k < l => \/ Place(ret.reasons[k]) < Place(ret.reasons[l])
                           \/ /\ ret.reasons[k].tag = "manufacturer"
                              /\ ret.reasons[l].tag = "manufacturer"

\* C10 witness: a call that returned a fuzzy name reason below 90 together with
\* a repeated manufacturer reason, and a hash match on a sum above 100
C10_Witness ==
    /\ ScoreReturned
    /\ \E k \in DOMAIN sc_ret[1].reasons :
          sc_ret[1].reasons[k].tag = "fuzzy_name" /\ sc_ret[1].reasons[k].sim < 90
    /\ Count(sc_ret[1].reasons, "manufacturer") >= 2
    /\ "hash_match" \in RetTags
    /\ sc_ret[1].score > 100

\* a cell that is missing: no key, None, the empty string, or pandas' nan
Missing(asset_row, col) ==
    \/ col \notin DOMAIN asset_row
    \/ asset_row[col] \in {PyNone, PyStr(<<>>), PyNaN}

\* the reasons of the rule that reads a column; the id rule reads four
TagsReading(col) ==
    CASE col = "serial"       -> {"serial_match"}
      [] col = "model"        -> {"model_match", "model_partial"}
      [] col = "manufacturer" -> {"manufacturer"}
      [] col = "name"         -> {"fuzzy_name"}
      [] col = "project"      -> {"folder_hint"}
      [] col = "file_hash"    -> {"hash_match"}
      [] OTHER                -> {}

\* C4 as stated: whatever cells of the asset record are missing, score_candidate
\* does not raise, and the rule reading a missing cell gives no reason (the id
\* rule none when all four cells it reads are missing).
C4_MalformedTolerated ==
    ScoreCalled =>
        /\ ~sc_ret[1].raised
        /\ \A col \in Cols :
              Missing(sc_args[1].asset_row, col) => RetTags \cap TagsReading(col) = {}
        /\ (\A col \in IdCols : Missing(sc_args[1].asset_row, col))
              => "id_match" \notin RetTags

\* C5 as stated: when the document's hash and the asset's file_hash are both
\* non-empty and equal, score_candidate returns hash_match and the score
\* max(S, 100), S the sum of the other reasons' weights, whatever the other
\* cells and signals are.
C5_HashOverride ==
    (/\ ScoreCalled
     /\ sc_args[1].file_meta.hash.t = "str"
     /\ sc_args[1].file_meta.hash.s # <<>>
     /\ "file_hash" \in DOMAIN sc_args[1].asset_row
     /\ sc_args[1].asset_row["file_hash"] = sc_args[1].file_meta.hash)
    => /\ ~sc_ret[1].raised
       /\ "hash_match" \in RetTags
       /\ sc_ret[1].score >= 100
       /\ sc_ret[1].score = Max2(SumWeights(sc_ret[1].reasons), 100)

(***************************************************************************)
(* Properties of match_files_to_assets and of the review page (Spec).      *)
(***************************************************************************)
\* score_candidate for a document and each registry row, in registry order
ScoresOf(path) ==
    [j \in 1..Len(assets) |->
        score_candidate(MetaOf(path, compute_hash), assets[j], SignalsOfPath[path])]

\* the candidates of a document, one for each registry row in registry order
CandidatesOf(path) ==
    [j \in 1..Len(assets) |-> Candidate(assets[j], ScoresOf(path)[j])]

\* a step of the document raises: its metadata, or the scoring of some row
DocRaises(path) ==
    \/ MetaRaises(path)
    \/ \E j \in 1..Len(assets) : ScoresOf(path)[j].raised

\* the result of a document that is processed with no other in the batch
Alone(path) ==
    IF MetaRaises(path) THEN ErrorResult(path, "FileNotFoundError")
    ELSE IF DocRaises(path) THEN ErrorResult(path, "AttributeError")
    ELSE OkResult(path, SignalsOfPath[path], CandidatesOf(path))

BatchReturned == m_pc \in {"return", "ui"}

\* C1: the batch returns one result for each input path, in input order with
\* that path in it; the result of a document that raises has an error and no
\* candidates, that of any other document is the normal result, and each is
\* what the document gets on its own, whichever other documents raised.
C1_BatchIsolation ==
    /\ Len(results) = path_idx - 1
    /\ Len(results) <= Len(file_paths)
    /\ \A k \in DOMAIN results :
          /\ results[k].file_path = file_paths[k]
          /\ IsError(results[k]) =>
                (results[k].top_candidates = <<>> /\ results[k].error # "")
    /\ m_pc = "return" =>
          /\ Len(results) = Len(file_paths)
          /\ \A k \in DOMAIN results :
                /\ IsError(results[k]) <=> DocRaises(file_paths[k])
                /\ results[k] = Alone(file_paths[k])

\* C1 witness: a returned batch of two whose first document raised and whose
\* second has candidates
C1_Witness ==
    /\ BatchReturned
    /\ Len(results) = 2
    /\ IsError(results[1])
    /\ ~IsError(results[2])
    /\ results[2].top_candidates # <<>>

\* C2 as stated: auto_choice is the top candidate exactly when there is one and
\* its score is at least the threshold of the slider, None otherwise.
C2_AutoChoiceGating ==
    \A k \in DOMAIN results :
        ~IsError(results[k]) =>
            LET top == results[k].top_candidates
            IN  results[k].auto_choice =
                    IF top # <<>> /\ top[1].score >= auto_confirm_threshold
                    THEN <<top[1]>> ELSE <<>>

CandTags(c) == {c.reasons[k].tag : k \in DOMAIN c.reasons} \ {", "}

EmptySignals(sig) ==
    /\ sig.asset_ids = <<>>
    /\ sig.serials = <<>>
    /\ sig.models = <<>>
    /\ sig.manufacturers = <<>>
    /\ sig.title_terms = <<>>

\* a candidate that no content rule fired for
MetadataOnly(c) ==
    /\ CandTags(c) \subseteq {"folder_hint", "hash_match"}
    /\ c.score \in {0, 10, 100}

Extracted == m_pc \in {"meta", "score"}

\* C8: a file of an unrecognized type has the empty text; a document with the
\* empty text has empty signals, and each of its candidates has reasons among
\* folder_hint and hash_match and a score of 0, 10 or 100.
C8_EmptyText ==
    /\ (Extracted /\ py_lower(splitext_ext(Path)) \notin {EXT_pdf, EXT_docx})
          => m_text = <<>>
    /\ (Extracted /\ m_text = <<>>) => EmptySignals(signals)
    /\ (m_pc = "score" /\ m_text = <<>>)
          => \A j \in DOMAIN scored : MetadataOnly(scored[j])
    /\ \A k \in DOMAIN results :
          (~IsError(results[k]) /\ TextOfPath[file_paths[k]] = <<>>)
          => /\ EmptySignals(results[k].signals)
             /\ \A j \in DOMAIN results[k].top_candidates :
                   MetadataOnly(results[k].top_candidates[j])

\* C8 witness: the result of notes.txt with a candidate of each of the scores
\* 0 and 100, the latter by its hash
C8_Witness ==
    /\ BatchReturned
    /\ \E k \in DOMAIN results :
          /\ file_paths[k] = PATH_Note
          /\ ~IsError(results[k])
          /\ \E j \in DOMAIN results[k].top_candidates :
                /\ results[k].top_candidates[j].score = 100
                /\ CandTags(results[k].top_candidates[j]) = {"hash_match"}
          /\ \E j \in DOMAIN results[k].top_candidates :
                results[k].top_candidates[j].score = 0

\* the place of candidate j in the ranking: after the candidates of a higher
\* score and those of its own score that come before it in the registry
PlaceOf(cands, j) ==
    1 + Cardinality({l \in DOMAIN cands :
                        \/ cands[l].score > cands[j].score
                        \/ cands[l].score = cands[j].score /\ l < j})

\* C3: in the list returned, top_candidates holds min(TopN, number of assets) candidates in descending
\* order of score: those with the highest scores, candidates of equal score in
\* registry order, so that the same inputs give the same ranking.
C3_RankingOrder ==
    m_pc = "return" =>
        \A k \in DOMAIN results :
            ~IsError(results[k]) =>
                LET cands == CandidatesOf(file_paths[k])
                    top   == results[k].top_candidates
                IN  /\ Len(top) = Min2(TopN, Len(assets))
                    /\ \A i \in 1..(Len(top) - 1) : top[i].score >= top[i + 1].score
                    /\ \A j \in DOMAIN cands :
                          PlaceOf(cands, j) <= TopN
                             => top[PlaceOf(cands, j)] = cands[j]

\* C3 witness: a result over more than TopN assets where the sort moved the
\* first row down, two different rows of one score are ranked next to each
\* other, and a row of the last ranked score is left out
C3_Witness ==
    /\ BatchReturned
    /\ Len(assets) > TopN
    /\ \E k \in DOMAIN results :
          /\ ~IsError(results[k])
          /\ LET cands == CandidatesOf(file_paths[k])
                 top   == results[k].top_candidates
             IN  /\ Len(top) = TopN
                 /\ top[1] # cands[1]
                 /\ \E i \in 1..(TopN - 1) :
                       top[i].score = top[i + 1].score /\ top[i] # top[i + 1]
                 /\ \E j \in DOMAIN cands :
                       PlaceOf(cands, j) > TopN /\ cands[j].score = top[TopN].score

====
